---- MODULE Spec2Model ----
(***************************************************************************)
(* A model of statprint.py: the StatPrint report object, its content       *)
(* buffer, the add_* operations and the word and pdf renderers.            *)
(*                                                                         *)
(* Python values are modelled as follows.  A str is a TLA+ string.  An     *)
(* optional value is None or Some(v).  A list is a sequence.  A cell value *)
(* of a DataFrame is IntV(n) or StrV(s), and str(value) is Str(value).     *)
(* A content item is the pair <<type, payload>> the code stores.           *)
(***************************************************************************)
EXTENDS Integers, Sequences, FiniteSets, TLC

\* The number of successful add_* calls made on one report.
MaxAdds == 3
\* The number of add_graph calls made on one report.
MaxGraphs == 2

VARIABLES
  doc_type,     \* self.doc_type
  title,        \* self.title
  table_theme,  \* self.table_theme
  content,      \* self.content
  graph_count,  \* self.graph_count
  call,         \* the most recent method call and its arguments
  raised,       \* the exception that call raised to the caller, or None
  out,          \* the document that call saved (empty when it saved none)
  log,          \* history: the items stored by the add_* calls, in call order
  base          \* history: self.content as the most recent add_* call left it

vars == <<doc_type, title, table_theme, content, graph_count,
          call, raised, out, log, base>>

----------------------------------------------------------------------------
\* Python values

None == [some |-> FALSE]
Some(v) == [some |-> TRUE, val |-> v]

\* bool(x) of an optional str, as in `if cover.get('subtitle'):`
Truthy(o) == o.some /\ o.val # ""

IntV(n) == [int |-> n]
StrV(s) == [str |-> s]

DigitStr(d) ==
  CASE d = 0 -> "0" [] d = 1 -> "1" [] d = 2 -> "2" [] d = 3 -> "3"
    [] d = 4 -> "4" [] d = 5 -> "5" [] d = 6 -> "6" [] d = 7 -> "7"
    [] d = 8 -> "8" [] d = 9 -> "9"

RECURSIVE IntToStr(_)
\* str(n) and f"{n}" of a non-negative int
IntToStr(n) ==
  IF n < 10 THEN DigitStr(n) ELSE IntToStr(n \div 10) \o DigitStr(n % 10)

\* str(value) of a cell value
Str(v) == IF "int" \in DOMAIN v THEN IntToStr(v.int) ELSE v.str

\* `x in lst` of a list
InList(x, lst) == \E k \in 1..Len(lst) : lst[k] = x

----------------------------------------------------------------------------
\* The inputs the operations are called with

DefaultTheme ==
  [header_bg_color |-> Some("D9D9D9"), row_bg_color_even |-> Some("F2F2F2"),
   row_bg_color_odd |-> None, table_width |-> None]

FixedWidthTheme ==
  [header_bg_color |-> Some("D9D9D9"), row_bg_color_even |-> Some("F2F2F2"),
   row_bg_color_odd |-> None, table_width |-> Some("5000")]

OddTheme ==
  [header_bg_color |-> None, row_bg_color_even |-> None,
   row_bg_color_odd |-> Some("EEEEEE"), table_width |-> Some("5000")]

Themes == {DefaultTheme, FixedWidthTheme, OddTheme}

DocTypes == {"word", "pdf", "html"}

SalesFrame ==
  [kind |-> "DataFrame", columns |-> <<"Region", "Total">>,
   rows |-> << <<StrV("East"), IntV(100)>>, <<StrV("West"), IntV(200)>> >>]

CategorySeries ==
  [kind |-> "Series", name |-> Some("Category"),
   index |-> <<StrV("A"), StrV("B"), StrV("C"), StrV("D")>>,
   values |-> <<IntV(1), IntV(2), IntV(3), IntV(14)>>]

UnnamedSeries ==
  [kind |-> "Series", name |-> None,
   index |-> <<StrV("x")>>, values |-> <<IntV(7)>>]

DataInputs == {SalesFrame, CategorySeries, UnnamedSeries}

HeaderInputs == {None, Some(<<"Key", "Amount">>), Some(<<"a", "b", "c">>)}

IndentInputs == {None, Some(<<0, 2, 5>>)}

CoverInputs ==
  {[title |-> "Annual", subtitle |-> Some("2024 results"),
    author |-> Some("Ann"), date |-> None],
   [title |-> "Draft", subtitle |-> None,
    author |-> None, date |-> Some("May")]}

HeadingInputs == {"Sales"}

FilenameInputs == {None, Some("fig.png")}

----------------------------------------------------------------------------
\* __init__

Init ==
  /\ doc_type \in DocTypes
  /\ title = "Q1"
  /\ table_theme \in Themes
  /\ content = <<>>
  /\ graph_count = 0
  /\ call = [op |-> "__init__"]
  /\ raised = None
  /\ out = <<>>
  /\ log = <<>>
  /\ base = <<>>

\* StatPrint() with every argument but the title left at its default
InitDefault ==
  /\ Init
  /\ doc_type = "word"
  /\ table_theme = DefaultTheme

\* What an add_* call leaves of the report apart from content and graph_count.
Added(c, item) ==
  /\ content' = c
  /\ base' = c
  /\ log' = Append(log, item)
  /\ raised' = None
  /\ out' = <<>>
  /\ UNCHANGED <<doc_type, title, table_theme>>

\* An add_table call that raised before it stored anything.
Failed(exc) ==
  /\ raised' = Some(exc)
  /\ out' = <<>>
  /\ UNCHANGED <<doc_type, title, table_theme, content, base, log>>

----------------------------------------------------------------------------
\* add_cover_page, add_heading

CoverItem(c) ==
  <<"cover", [title |-> c.title, subtitle |-> c.subtitle,
              author |-> c.author, date |-> c.date]>>

\* add_cover_page with append in place of insert(0, ...)
AddCoverPage_Appends(c) ==
  /\ Len(log) < MaxAdds
  /\ call' = [op |-> "add_cover_page", cover |-> c]
  /\ Added(Append(content, CoverItem(c)), CoverItem(c))
  /\ UNCHANGED graph_count

AddCoverPage(c) ==
  /\ Len(log) < MaxAdds
  /\ call' = [op |-> "add_cover_page", cover |-> c]
  /\ Added(<<CoverItem(c)>> \o content, CoverItem(c))
  /\ UNCHANGED graph_count

AddHeading(h) ==
  /\ Len(log) < MaxAdds
  /\ call' = [op |-> "add_heading", heading |-> h]
  /\ Added(Append(content, <<"heading", [text |-> h]>>),
           <<"heading", [text |-> h]>>)
  /\ UNCHANGED graph_count

----------------------------------------------------------------------------
\* add_table

\* Series.reset_index(): the index becomes the first column, the values the
\* second; pandas names them "index" and the series' name (0 when it has none).
ResetIndex(s) ==
  [columns |-> <<"index", IF s.name = None THEN "0" ELSE s.name.val>>,
   rows |-> [i \in 1..Len(s.index) |-> <<s.index[i], s.values[i]>>]]

\* A column assignment that accepts any number of labels
SetColumns_Unchecked(df, labels) ==
  [raised |-> None, df |-> [df EXCEPT !.columns = labels]]

\* `df.columns = labels`: pandas raises ValueError (Length mismatch) unless
\* there are as many labels as columns.
SetColumns(df, labels) ==
  IF Len(labels) # Len(df.columns)
  THEN [raised |-> Some("ValueError"), df |-> df]
  ELSE [raised |-> None, df |-> [df EXCEPT !.columns = labels]]

\* The body of add_table up to the append: the frame and the headers stored.
NormalizeTable(data, custom_headers) ==
  IF data.kind = "Series"
  THEN LET headers == IF custom_headers = None
                      THEN IF data.name # None
                           THEN Some(<<data.name.val, "Count">>)
                           ELSE Some(<<"Value", "Count">>)
                      ELSE custom_headers
           set == SetColumns(ResetIndex(data), headers.val)
       IN  [raised |-> set.raised, df |-> set.df, custom_headers |-> headers]
  ELSE LET df == [columns |-> data.columns, rows |-> data.rows]
       IN  IF custom_headers # None
           THEN LET set == SetColumns(df, custom_headers.val)
                IN  [raised |-> set.raised, df |-> set.df,
                     custom_headers |-> custom_headers]
           ELSE [raised |-> None, df |-> df, custom_headers |-> custom_headers]

TableItem(n, indent_rows) ==
  <<"table", [df |-> n.df, custom_headers |-> n.custom_headers,
              indent_rows |-> IF indent_rows = None THEN <<>>
                              ELSE indent_rows.val]>>

AddTable(data, custom_headers, indent_rows) ==
  /\ Len(log) < MaxAdds
  /\ call' = [op |-> "add_table", data |-> data,
              custom_headers |-> custom_headers, indent_rows |-> indent_rows]
  /\ LET n == NormalizeTable(data, custom_headers)
     IN  IF n.raised # None
         THEN Failed(n.raised.val)
         ELSE Added(Append(content, TableItem(n, indent_rows)),
                    TableItem(n, indent_rows))
  /\ UNCHANGED graph_count

----------------------------------------------------------------------------
\* add_graph

\* A filename hint used as it is, without the counter
GraphFilename_NoCounter(count, filename) ==
  IF filename = None
  THEN "graph_" \o IntToStr(count) \o ".png"
  ELSE filename.val

GraphFilename(count, filename) ==
  IF filename = None
  THEN "graph_" \o IntToStr(count) \o ".png"
  ELSE IntToStr(count) \o "_" \o filename.val

\* The counter is read for the filename, then incremented; the figure is
\* saved under that name and the item appended.
AddGraph(filename) ==
  /\ Len(log) < MaxAdds
  /\ graph_count < MaxGraphs
  /\ call' = [op |-> "add_graph", filename |-> filename]
  /\ graph_count' = graph_count + 1
  /\ LET item == <<"graph", [path |-> GraphFilename(graph_count, filename)]>>
     IN  Added(Append(content, item), item)

NextAdd ==
  \/ \E c \in CoverInputs : AddCoverPage(c)
  \/ \E h \in HeadingInputs : AddHeading(h)
  \/ \E d \in DataInputs, ch \in HeaderInputs, ir \in IndentInputs :
       AddTable(d, ch, ir)
  \/ \E f \in FilenameInputs : AddGraph(f)

\* The report as populated by add_* calls alone, before any render.
SpecAdd == InitDefault /\ [][NextAdd]_vars

----------------------------------------------------------------------------
\* _apply_word_table_style

\* The fill of data row i (0-based, header excluded), lines 138-143.
RowFill(theme, i) ==
  IF i % 2 = 0 /\ Truthy(theme.row_bg_color_even)
  THEN theme.row_bg_color_even
  ELSE IF i % 2 = 1 /\ Truthy(theme.row_bg_color_odd)
       THEN theme.row_bg_color_odd
       ELSE None

\* The fill of the header cells, lines 132-133.
HeaderFill(theme) ==
  IF Truthy(theme.header_bg_color) THEN theme.header_bg_color ELSE None

\* tblPr is bound only inside `if self.table_theme.get('table_width'):`, and
\* line 180 reads it in every case: without a table width the function ends
\* in UnboundLocalError, after the cells were shaded and indented.
BordersRaise(theme) ==
  IF Truthy(theme.table_width) THEN None ELSE Some("UnboundLocalError")

\* table: the docx table as generate_word_report filled it.
ApplyWordTableStyle(theme, table, indent_rows) ==
  [raised |-> BordersRaise(theme),
   table |->
     [table EXCEPT
        !.header = [j \in 1..Len(table.header) |->
                      [table.header[j] EXCEPT !.bold = TRUE,
                                              !.fill = HeaderFill(theme)]],
        !.rows = [r \in 1..Len(table.rows) |->
                    [j \in 1..Len(table.rows[r]) |->
                       [table.rows[r][j] EXCEPT
                          !.fill = RowFill(theme, r - 1),
                          !.indent = IF j = 1 /\ InList(r - 1, indent_rows)
                                     THEN TRUE ELSE @]]],
        !.width = IF Truthy(theme.table_width) THEN theme.table_width
                  ELSE None,
        !.borders = "horizontal"]]

----------------------------------------------------------------------------
\* generate_word_report

\* Lines 190-199: the cover page.
WordCover(cover) ==
  <<[el |-> "paragraph", text |-> ""],
    [el |-> "heading", text |-> cover.title, level |-> 0]>>
  \o (IF Truthy(cover.subtitle)
      THEN <<[el |-> "paragraph", text |-> cover.subtitle.val]>> ELSE <<>>)
  \o (IF Truthy(cover.author)
      THEN <<[el |-> "paragraph", text |-> "Author: " \o cover.author.val]>>
      ELSE <<>>)
  \o (IF Truthy(cover.date)
      THEN <<[el |-> "paragraph", text |-> "Date: " \o cover.date.val]>>
      ELSE <<>>)
  \o <<[el |-> "page_break"]>>

\* Lines 212-232: the table before styling.
WordTable(info) ==
  [el |-> "table", style |-> "Table Grid",
   header |-> [j \in 1..Len(info.df.columns) |->
                 [text |-> info.df.columns[j], bold |-> TRUE, fill |-> None]],
   rows |-> [r \in 1..Len(info.df.rows) |->
               [j \in 1..Len(info.df.rows[r]) |->
                  [text |-> Str(info.df.rows[r][j]), fill |-> None,
                   indent |-> (j = 1 /\ InList(r - 1, info.indent_rows))]]],
   width |-> None, borders |-> "grid"]

RECURSIVE WordItems(_, _, _)
\* Lines 204-238: the loop over self.content; it stops where a table's
\* styling raises.
WordItems(theme, items, doc) ==
  IF items = <<>>
  THEN [raised |-> None, doc |-> doc]
  ELSE LET type == items[1][1]
           payload == items[1][2]
       IN  CASE type = "heading" ->
                  WordItems(theme, Tail(items),
                            Append(doc, [el |-> "heading",
                                         text |-> payload.text, level |-> 1]))
             [] type = "table" ->
                  LET styled == ApplyWordTableStyle(theme, WordTable(payload),
                                                    payload.indent_rows)
                  IN  IF styled.raised # None
                      THEN [raised |-> styled.raised, doc |-> doc]
                      ELSE WordItems(theme, Tail(items),
                                     Append(doc, styled.table))
             [] type = "graph" ->
                  WordItems(theme, Tail(items),
                            doc \o <<[el |-> "paragraph", text |-> ""],
                                     [el |-> "picture", path |-> payload.path,
                                      width |-> "6in"]>>)
             [] OTHER -> WordItems(theme, Tail(items), doc)

\* Line 187
CoverFirst(c) == c # <<>> /\ c[1][1] = "cover"

\* self.content after line 188
PopCover(c) == IF CoverFirst(c) THEN Tail(c) ELSE c

\* The whole method: the content it leaves, the document it saved (none when
\* it raised before doc.save) and the exception.
WordReport(ttl, theme, c) ==
  LET front == IF CoverFirst(c) THEN WordCover(c[1][2]) ELSE <<>>
      rest == PopCover(c)
      body == WordItems(theme, rest,
                        Append(front, [el |-> "heading", text |-> ttl,
                                       level |-> 0]))
  IN  [content |-> rest,
       raised |-> body.raised,
       out |-> IF body.raised = None THEN body.doc ELSE <<>>]

GenerateWordReport ==
  /\ call' = [op |-> "generate_word_report"]
  /\ LET r == WordReport(title, table_theme, content)
     IN  /\ content' = r.content
         /\ raised' = r.raised
         /\ out' = r.out
  /\ UNCHANGED <<doc_type, title, table_theme, graph_count, log, base>>

----------------------------------------------------------------------------
\* generate_pdf_report

\* pdf.w - 2 * pdf.l_margin of FPDF's default A4 page, in mm
EffectiveWidth == 190

PdfCell(w, txt, style, size, align) ==
  [el |-> "cell", w |-> w, txt |-> txt, style |-> style, size |-> size,
   align |-> align]

\* Lines 270-275: the header row and the rule below it.
PdfHeader(df) ==
  [j \in 1..Len(df.columns) |->
     PdfCell(<<EffectiveWidth, Len(df.columns)>>, df.columns[j], "B", 10, "C")]
  \o <<[el |-> "ln"], [el |-> "line"]>>

\* Lines 280-287: data row i (0-based) and the rule below it.
PdfRow(df, indent_rows, i) ==
  [j \in 1..Len(df.rows[i + 1]) |->
     PdfCell(<<EffectiveWidth, Len(df.columns)>>,
             IF j = 1 /\ InList(i, indent_rows)
             THEN "    " \o Str(df.rows[i + 1][j])
             ELSE Str(df.rows[i + 1][j]),
             "", 10, "L")]
  \o <<[el |-> "ln"], [el |-> "line"]>>

RECURSIVE PdfRows_Reversed(_, _, _)
\* The data rows drawn last to first
PdfRows_Reversed(df, indent_rows, i) ==
  IF i >= Len(df.rows) THEN <<>>
  ELSE PdfRows_Reversed(df, indent_rows, i + 1) \o PdfRow(df, indent_rows, i)

RECURSIVE PdfRows(_, _, _)
\* Data rows i, i+1, ... in row order.
PdfRows(df, indent_rows, i) ==
  IF i >= Len(df.rows) THEN <<>>
  ELSE PdfRow(df, indent_rows, i) \o PdfRows(df, indent_rows, i + 1)

RECURSIVE PdfItems(_)
\* Lines 254-290: the loop over self.content.
PdfItems(items) ==
  IF items = <<>> THEN <<>>
  ELSE LET type == items[1][1]
           payload == items[1][2]
       IN  (CASE type = "heading" ->
                   <<[el |-> "ln"], PdfCell(<<0, 1>>, payload.text, "B", 14, "L")>>
              [] type = "table" ->
                   PdfHeader(payload.df)
                   \o PdfRows(payload.df, payload.indent_rows, 0)
              [] type = "graph" ->
                   <<[el |-> "ln"],
                     [el |-> "image", path |-> payload.path, w |-> 150]>>
              [] OTHER -> <<>>)
           \o PdfItems(Tail(items))

\* The whole method: the page's drawing calls in order.
PdfReport(ttl, c) ==
  <<PdfCell(<<0, 1>>, ttl, "B", 16, "C"), [el |-> "ln"]>> \o PdfItems(c)

GeneratePdfReport ==
  /\ call' = [op |-> "generate_pdf_report"]
  /\ raised' = None
  /\ out' = PdfReport(title, content)
  /\ UNCHANGED <<doc_type, title, table_theme, content, graph_count, log, base>>

----------------------------------------------------------------------------
\* generate_report

\* A doc_type that is neither 'word' nor 'pdf': nothing happens.
GenerateNothing ==
  /\ call' = [op |-> "generate_report"]
  /\ raised' = None
  /\ out' = <<>>
  /\ UNCHANGED <<doc_type, title, table_theme, content, graph_count, log, base>>

GenerateReport ==
  \/ doc_type = "word" /\ GenerateWordReport
  \/ doc_type = "pdf" /\ GeneratePdfReport
  \/ doc_type \notin {"word", "pdf"} /\ GenerateNothing

Next ==
  \/ NextAdd
  \/ GenerateReport
  \/ GenerateWordReport
  \/ GeneratePdfReport

Spec == Init /\ [][Next]_vars

\* A default-constructed report on which the add_* methods and both
\* renderers are called directly.
NextDirect ==
  \/ NextAdd
  \/ GenerateWordReport
  \/ GeneratePdfReport

SpecDirect == InitDefault /\ [][NextDirect]_vars

----------------------------------------------------------------------------
\* Vocabulary of the properties

IsCover(item) == item[1] = "cover"
NotCover(item) == item[1] # "cover"
IsTable(item) == item[1] = "table"
IsGraph(item) == item[1] = "graph"
IsTableEl(e) == e.el = "table"

RenderOps == {"generate_word_report", "generate_pdf_report"}

\* The texts a pdf page shows, in drawing order (an image by its path).
IsPdfText(e) == e.el \in {"cell", "image"}
PdfTextOf(e) == IF e.el = "cell" THEN e.txt ELSE e.path
PdfTexts(doc) ==
  LET shown == SelectSeq(doc, IsPdfText)
  IN  [k \in 1..Len(shown) |-> PdfTextOf(shown[k])]

\* Of a table item: is data row i (0-based) one of its n rows and listed in
\* indent_rows.
IndentedRow(info, i) ==
  /\ 0 <= i
  /\ i < Len(info.df.rows)
  /\ InList(i, info.indent_rows)

\* The texts of one buffer item top to bottom: a heading's text; a table's
\* header labels left to right, then its cells row by row, left to right,
\* the first cell of an indented row behind four spaces; an image's path.
ItemTexts(item) ==
  CASE item[1] = "heading" -> <<item[2].text>>
    [] item[1] = "graph" -> <<item[2].path>>
    [] item[1] = "table" ->
         LET df == item[2].df
             m == Len(df.columns)
         IN  [j \in 1..m |-> df.columns[j]]
             \o [k \in 1..(m * Len(df.rows)) |->
                   LET r == ((k - 1) \div m) + 1
                       j == ((k - 1) % m) + 1
                   IN  IF j = 1 /\ IndentedRow(item[2], r - 1)
                       THEN "    " \o Str(df.rows[r][j])
                       ELSE Str(df.rows[r][j])]
    [] OTHER -> <<>>

RECURSIVE BufferTexts(_)
BufferTexts(items) ==
  IF items = <<>> THEN <<>>
  ELSE ItemTexts(items[1]) \o BufferTexts(Tail(items))

----------------------------------------------------------------------------
\* C1: a render never mutates the content buffer: after generate_word_report
\* or generate_pdf_report self.content is, item for item, what it was before
\* the call, also when its first item is a cover.
C1_RenderKeepsContent ==
  [][call'.op \in RenderOps => content' = content]_vars

\* C2: after any sequence of add_* calls the buffer holds at most one cover
\* item, and once add_cover_page was called it holds exactly one, built from
\* the arguments of the most recent add_cover_page call.
C2_OneCoverLastWins ==
  LET kept == SelectSeq(content, IsCover)
      added == SelectSeq(log, IsCover)
  IN  /\ Len(kept) <= 1
      /\ added # <<>> => kept = <<added[Len(added)]>>

\* C3: after any interleaving of add_* calls with no render in between,
\* every cover item precedes every other item (so a cover is at position 0
\* whenever one was added), and the other items are in the order of their
\* add_* calls.
C3_CoversFirstOrderKept ==
  LET ncover == Len(SelectSeq(log, IsCover))
  IN  /\ Len(content) = Len(log)
      /\ \A i \in 1..Len(content) : IsCover(content[i]) <=> i <= ncover
      /\ SelectSeq(content, NotCover) = SelectSeq(log, NotCover)

\* A heading and a table were added, in that order, and a cover after them.
C3_Witness ==
  /\ Len(log) = 3
  /\ log[1][1] = "heading"
  /\ log[2][1] = "table"
  /\ log[3][1] = "cover"
  /\ content[1][1] = "cover"

\* What a render shows of a document, in order: "break" for a page break,
\* "table" and "image" for those, the text of every other element that has
\* one (spacing paragraphs, line advances and rules show nothing).
MarkOf(e) ==
  CASE e.el = "page_break" -> "break"
    [] e.el = "table" -> "table"
    [] e.el \in {"picture", "image"} -> "image"
    [] e.el = "cell" -> e.txt
    [] e.el \in {"paragraph", "heading"} -> e.text
    [] OTHER -> ""
Shows(e) == MarkOf(e) # ""
Marks(doc) ==
  LET shown == SelectSeq(doc, Shows)
  IN  [k \in 1..Len(shown) |-> MarkOf(shown[k])]

\* The lines of a cover page.
CoverTexts(cover) ==
  {cover.title}
  \cup (IF cover.subtitle.some THEN {cover.subtitle.val} ELSE {})
  \cup (IF cover.author.some THEN {"Author: " \o cover.author.val} ELSE {})
  \cup (IF cover.date.some THEN {"Date: " \o cover.date.val} ELSE {})

\* doc opens with the cover's lines, its title first, and a page break right
\* after them.
CoverPageFirst(doc, cover) ==
  LET m == Marks(doc)
  IN  /\ m # <<>>
      /\ m[1] = cover.title
      /\ \E k \in 2..Len(m) :
           /\ m[k] = "break"
           /\ \A i \in 1..(k - 1) : m[i] \in CoverTexts(cover)

\* C4: in a render by either backend of a buffer that holds a cover, the
\* cover is the first thing emitted and a page break follows it at once,
\* before the report title and any heading, table or image.
C4_CoverRendersFirst ==
  [][(call'.op \in RenderOps /\ CoverFirst(content))
       => CoverPageFirst(out', content[1][2])]_vars

\* What a first render of the buffer c by the backend of method op saves.
FirstRender(op, c) ==
  IF op = "generate_word_report"
  THEN WordReport(title, table_theme, c).out
  ELSE PdfReport(title, c)

\* C5: rendering is repeatable: a render that follows another with no add_*
\* call in between saves what a first render by its backend saves from the
\* buffer as the add_* calls left it.
C5_RenderRepeatable ==
  call.op \in RenderOps => out = FirstRender(call.op, base)

\* The column count of the data of an add_table call.
ColumnCount(data) ==
  IF data.kind = "Series" THEN 2 ELSE Len(data.columns)

HeaderMismatch(c) ==
  /\ c.op = "add_table"
  /\ c.custom_headers # None
  /\ Len(c.custom_headers.val) # ColumnCount(c.data)

\* Every table item has as many header labels as each row has cells.
Rectangular ==
  \A k \in 1..Len(content) :
    IsTable(content[k]) =>
      \A r \in 1..Len(content[k][2].df.rows) :
        Len(content[k][2].df.rows[r]) = Len(content[k][2].df.columns)

\* C6: add_table with custom_headers whose length differs from the column
\* count of the data raises to the caller and leaves the buffer as it was;
\* so every table item in the buffer is rectangular.
C6_HeaderMismatchRejected ==
  /\ [][HeaderMismatch(call') => (raised' # None /\ content' = content)]_vars
  /\ []Rectangular

\* A mismatched add_table call was refused on a buffer that holds a table.
C6_Witness ==
  /\ HeaderMismatch(call)
  /\ raised = Some("ValueError")
  /\ \E k \in 1..Len(content) : IsTable(content[k])

\* The fills of the tables of a saved word document, table by table: of the
\* header cells, and of the cells of each data row.
WordFills(doc) ==
  LET tables == SelectSeq(doc, IsTableEl)
  IN  [k \in 1..Len(tables) |->
        [header |-> [j \in 1..Len(tables[k].header) |->
                       tables[k].header[j].fill],
         rows |-> [r \in 1..Len(tables[k].rows) |->
                     [j \in 1..Len(tables[k].rows[r]) |->
                        tables[k].rows[r][j].fill]]]]

\* Zebra striping of the tables of buffer c under a theme.
ZebraFills(theme, c) ==
  LET tables == SelectSeq(c, IsTable)
  IN  [k \in 1..Len(tables) |->
        [header |-> [j \in 1..Len(tables[k][2].df.columns) |->
                       theme.header_bg_color],
         rows |-> [r \in 1..Len(tables[k][2].df.rows) |->
                     [j \in 1..Len(tables[k][2].df.rows[r]) |->
                        IF (r - 1) % 2 = 0 THEN theme.row_bg_color_even
                        ELSE theme.row_bg_color_odd]]]]

\* C7: for every table and theme the styled table has the header colour on
\* its header row when that is set, the even-row colour on data rows 0, 2,
\* ... when that is set, the odd-row colour on rows 1, 3, ... when that is
\* set, and no fill elsewhere.
C7_ZebraStriping ==
  call.op = "generate_word_report"
    => WordFills(out) = ZebraFills(table_theme, content)

\* The indentation of the tables of a saved word document: cell by cell.
WordIndents(doc) ==
  LET tables == SelectSeq(doc, IsTableEl)
  IN  [k \in 1..Len(tables) |->
        [r \in 1..Len(tables[k].rows) |->
           [j \in 1..Len(tables[k].rows[r]) |-> tables[k].rows[r][j].indent]]]

\* The indentation indent_rows asks for: the first cell of the listed rows
\* that exist.
AskedIndents(c) ==
  LET tables == SelectSeq(c, IsTable)
  IN  [k \in 1..Len(tables) |->
        [r \in 1..Len(tables[k][2].df.rows) |->
           [j \in 1..Len(tables[k][2].df.rows[r]) |->
              j = 1 /\ IndentedRow(tables[k][2], r - 1)]]]

\* C8: in both backends the first cell of data row i is indented exactly
\* when i is in indent_rows and 0 <= i < n, no other cell is, and values of
\* indent_rows outside [0, n) cause no error.
C8_RowIndentation ==
  /\ call.op \in RenderOps => raised = None
  /\ call.op = "generate_word_report"
       => WordIndents(out) = AskedIndents(content)
  /\ call.op = "generate_pdf_report"
       => PdfTexts(out) = <<title>> \o BufferTexts(content)

\* C9: the pdf backend emits the report title first, then the non-cover
\* items in buffer order; of a table the header labels left to right, then
\* the data rows in row order, cells left to right.
C9_PdfOrder ==
  call.op = "generate_pdf_report"
    => /\ raised = None
       /\ PdfTexts(out) = <<title>> \o BufferTexts(content)

\* Title "Q1", heading "Sales", table Region/Total with East/100, West/200.
C9_Witness ==
  /\ call.op = "generate_pdf_report"
  /\ PdfTexts(out) = <<"Q1", "Sales", "Region", "Total",
                    "East", "100", "West", "200">>

DistinctGraphPaths ==
  LET graphs == SelectSeq(log, IsGraph)
  IN  \A i, j \in 1..Len(graphs) :
        i # j => graphs[i][2].path # graphs[j][2].path

\* C10: graph_count starts at 0, grows by exactly 1 on every add_graph call
\* and is changed by no other call; add_graph builds its path from the
\* counter value before the increment, and no two add_graph calls on one
\* report store the same path, with or without a filename hint.
C10_GraphCounter ==
  /\ graph_count = 0
  /\ [][/\ (call'.op = "add_graph") =>
             /\ graph_count' = graph_count + 1
             /\ Len(content') = Len(content) + 1
             /\ content'[Len(content')][2].path
                  = (IF call'.filename = None
                     THEN "graph_" \o IntToStr(graph_count) \o ".png"
                     ELSE IntToStr(graph_count) \o "_" \o call'.filename.val)
        /\ (call'.op # "add_graph") => (graph_count' = graph_count)]_vars
  /\ []DistinctGraphPaths

\* Two add_graph calls stored their paths, one with a hint and one without.
C10_Witness ==
  /\ graph_count = 2
  /\ \E i, j \in 1..Len(content) :
       /\ IsGraph(content[i]) /\ content[i][2].path = "graph_0.png"
       /\ IsGraph(content[j]) /\ content[j][2].path = "1_fig.png"

====
